---- MODULE Spec2Model ----
(***************************************************************************)
(* State-machine model of the infinite-runner Game class (Game.ts) and of  *)
(* the App component that mounts it.                                       *)
(*                                                                         *)
(* Units (all quantities are integers):                                    *)
(*   time          1/100 s          (delta, elapsed)                       *)
(*   gameSpeed     1/10 unit/s      (18   -> 180)                          *)
(*   gravity       1/10 unit/s^2    (42.6 -> 426)                          *)
(*   x, z          1/1000 unit      (28   -> 28000); speed*delta is exact  *)
(*   playerYVel    1/1000 unit/s    (14   -> 14000); gravity*delta exact   *)
(*   playerY       1/100000 unit    (velocity*delta is exact)              *)
(*   texture offset: delta*gameSpeed*layerSpeed with layerSpeed in 1/100   *)
(***************************************************************************)
EXTENDS Integers, Sequences, FiniteSets, TLC

\* ---------------------------------------------------------------- bounds
\* tick() executions explored per run (the one made by load() included).
MaxFrames == 4

\* Longest clip list of the player assets explored.
MaxClips == 3

\* Frames explored while the player is in the air in the runs of one jump.
MaxAirFrames == 45

\* ------------------------------------------------------ program constants
floorSegmentLength == 28000
segmentCount == 6
obstacleCount == 7
playerX == -8000
FloorBehindThreshold == -30000
ObstacleBehindThreshold == -26000
FloorStartX == -20000
ObstacleStartX == 18000
ObstacleSpacing == 16000
ObstacleJitter == 18000
JumpImpulse == 14000
jumpFloorY == 0
DefaultGameSpeed == 180
DefaultGravity == 426
cameraLead == 19300
CameraSmoothing == 5
LaneSmoothing == 18
layerCount == 7

\* LANES = [-5, 0, 5], indexed by LaneIndex 0..2.
LANES == [l \in 0..2 |-> (l - 1) * 5000]

\* Values the debug panel sliders are moved to (ranges [0,60] and [0,80]).
GameSpeeds == {0, DefaultGameSpeed, 600}
Gravities == {0, DefaultGravity, 800}

\* Instants at which the frame clock is read: time since the previous
\* getDelta(), 1/100 s.  WorldDeltas is the coarser set used with the debug
\* panel's speeds.
Deltas == {0, 20, 120}
WorldDeltas == {0, 60}

\* Sampled outcomes of the two Math.random() calls of one recycling:
\* <<Math.floor(Math.random() * 3), Math.random() * 18>>, the second in [0, 18).
RandomDraws == {<<0, 0>>, <<1, ObstacleJitter - 1>>, <<2, 9000>>}

KeyCodes == {"Enter", "ArrowLeft", "KeyA", "ArrowRight", "KeyD", "Space", "KeyX"}

\* Layers whose texture load completes during a run (the slowest and the
\* fastest layer); the other loads stay pending.
ArrivingLayers == {1, layerCount}

\* layerDefs[i].speed, in 1/100.
LayerSpeed == <<1, 2, 3, 4, 6, 8, 10>>

\* Animation lists of the player asset; a clip is the set of role words its
\* lower-cased name contains.
ClipLists == { <<{"idle"}, {"run"}, {"jump"}, {"death"}>>, <<>> }

\* World-space bounding boxes (Box3.setFromObject) of the prepared models:
\* heights are desiredHeight * scale (3 * 1.6 and 2.6 * 0.6), the horizontal
\* half extents depend on the asset.
PlayerHeight == 4800
ObstacleHeight == 1560
PlayerHalfExtent == 1000
ObstacleHalfExtent == 800

NoAction == 0

\* ----------------------------------------------------------------- state
VARIABLES
    state,          \* Game.state
    uiState,        \* App's gameState (last value given to onStateChange)
    loadState,      \* the Promise.all of load(): "pending" | "resolved" | "rejected"
    disposed,       \* dispose() has been called
    listening,      \* the keydown listener is attached to window
    rafId,          \* "null" or "set"
    scheduled,      \* number of frame callbacks pending in the browser
    clockRunning,   \* THREE.Clock.running
    elapsed,        \* now - clock.oldTime
    gameSpeed,      \* config.gameSpeed
    gravity,        \* config.gravity
    clips,          \* playerGltf.animations of the asset
    playerRoot,     \* playerRoot !== null
    playerZ,        \* playerRoot.position.z
    playerActions,  \* role -> index of its clip's action (NoAction: undefined)
    active,         \* actions currently playing on the mixer
    currentLane,
    targetLane,
    playerY,
    playerYVel,
    grounded,
    cameraFollowX,
    floorSegments,  \* x of each floor segment, in array order
    obstacles,      \* [x, y, lane] of each obstacle, in array order
    parallaxLayers, \* [id, offset] of each loaded layer, in push order
    texturesPending,\* layer ids whose texture load has not completed
    frames,         \* number of tick() executions
    lastDelta,      \* delta passed to the latest update()
    lastFrameState, \* state in which the latest update() started
    recycledFloor,  \* floor indices recycled by the latest update()
    recycledObstacles, \* obstacle indices recycled by the latest update()
    sinceStart,     \* time since the latest entry to running by key or restart
    awaitingFirst,  \* no update() has run since that entry
    restarted,      \* the latest call made on the game was restart()
    deadCalls,      \* onStateChange("dead") calls made by the latest update()
    airFrames,      \* update() calls in running since the jump key, while airborne
    lastSteps       \* the steps the latest update() executed, in order

vars == <<state, uiState, loadState, disposed, listening, rafId, scheduled,
          clockRunning, elapsed, gameSpeed, gravity, clips, playerRoot, playerZ,
          playerActions, active, currentLane, targetLane, playerY, playerYVel,
          grounded, cameraFollowX, floorSegments, obstacles, parallaxLayers,
          texturesPending, frames, lastDelta, lastFrameState, recycledFloor,
          recycledObstacles, sinceStart, awaitingFirst, restarted,
          deadCalls, airFrames, lastSteps>>

\* --------------------------------------------------------------- helpers
Max(a, b) == IF a >= b THEN a ELSE b

NegInfinity == -1000000000

RECURSIVE MaxOver(_, _, _)
MaxOver(xs, i, acc) ==
    IF i > Len(xs) THEN acc ELSE MaxOver(xs, i + 1, Max(acc, xs[i]))

\* clampLaneIndex with the upper test off by one.
clampLaneIndexEarlyUpper(laneIndex) ==
    IF laneIndex <= 0 THEN 0
    ELSE IF laneIndex >= 1 THEN 2
    ELSE laneIndex

\* lane.ts
clampLaneIndex(laneIndex) ==
    IF laneIndex <= 0 THEN 0
    ELSE IF laneIndex >= 2 THEN 2
    ELSE laneIndex

\* math.ts: lerp / damp.  exp(-x) is replaced by the rational upper bound
\* 1 / (1 + x + x^2/2), kept in 1/10000; x = smoothing * delta / 100.
lerp(a, b, t) == a + ((b - a) * t) \div 10000

damp(current, target, smoothing, delta) ==
    LET n == smoothing * delta
        decay == 200000000 \div (20000 + 200 * n + n * n)
    IN lerp(current, target, 10000 - decay)

\* ----------------------------------------------------- animation actions
\* clips.find(c => c.name.toLowerCase().includes(needle)): index or NoAction.
RECURSIVE FindClip(_, _, _)
FindClip(cl, needle, i) ==
    IF i > Len(cl) THEN NoAction
    ELSE IF needle \in cl[i] THEN i
    ELSE FindClip(cl, needle, i + 1)

byName(cl, needle) == FindClip(cl, needle, 1)

\* a ?? b on clip indices; clips[k] is undefined beyond the end of the list.
Coalesce(a, b) == IF a # NoAction THEN a ELSE b
ClipAt(cl, k) == IF k <= Len(cl) THEN k ELSE NoAction

NoActions == [run |-> NoAction, jump |-> NoAction, death |-> NoAction, idle |-> NoAction]

\* buildCharacterActions without the fallbacks by index.
buildCharacterActionsByNameOnly(cl) ==
    IF Len(cl) = 0 THEN NoActions
    ELSE [idle  |-> Coalesce(byName(cl, "idle"),
                             Coalesce(byName(cl, "standing"), byName(cl, "stand"))),
          run   |-> byName(cl, "run"),
          jump  |-> byName(cl, "jump"),
          death |-> byName(cl, "death")]

buildCharacterActions(cl) ==
    IF Len(cl) = 0 THEN NoActions
    ELSE [idle  |-> Coalesce(byName(cl, "idle"),
                             Coalesce(byName(cl, "standing"), byName(cl, "stand"))),
          run   |-> Coalesce(byName(cl, "run"), ClipAt(cl, 1)),
          jump  |-> Coalesce(byName(cl, "jump"), Coalesce(ClipAt(cl, 2), ClipAt(cl, 1))),
          death |-> Coalesce(byName(cl, "death"), Coalesce(ClipAt(cl, 3), ClipAt(cl, 1)))]

\* The mixer's view of each action: "stopped", or playing with loop mode
\* "repeat" (LoopRepeat) or "once" (LoopOnce, clamped when finished).
stopAllAction(act) == [a \in DOMAIN act |-> "stopped"]

\* action.stop() having no effect.
stopActionIgnored(act, a) == act

stopAction(act, a) ==
    IF a = NoAction THEN act ELSE [act EXCEPT ![a] = "stopped"]

playActionAlwaysRepeat(act, a, loop) ==
    IF a = NoAction THEN act ELSE [act EXCEPT ![a] = "repeat"]

playAction(act, a, loop) ==
    IF a = NoAction THEN act
    ELSE [act EXCEPT ![a] = IF loop THEN "repeat" ELSE "once"]

\* ------------------------------------------------------- per-frame steps
\* updateCamera: the new cameraFollowX.
updateCamera(cam, hasPlayer, delta) ==
    IF ~hasPlayer THEN cam
    ELSE damp(cam, playerX + cameraLead, CameraSmoothing, delta)

\* updateParallax without the "if (!moving) return" gate.
updateParallaxUngated(layers, delta, speed, moving) ==
    [i \in DOMAIN layers |->
        [layers[i] EXCEPT !.offset = @ + delta * speed * LayerSpeed[layers[i].id]]]

\* updateParallax: the new layer list (bgSpeed is left at its default 1).
updateParallax(layers, delta, speed, moving) ==
    IF ~moving THEN layers
    ELSE [i \in DOMAIN layers |->
            [layers[i] EXCEPT !.offset = @ + delta * speed * LayerSpeed[layers[i].id]]]

\* updatePlayer integrating the position before the velocity.
updatePlayerPositionFirst(p, delta, g, lane, acts) ==
    IF ~p.root THEN p
    ELSE LET z == damp(p.z, LANES[lane], LaneSmoothing, delta)
         IN IF ~p.grounded
            THEN LET y   == p.y + p.vel * delta
                     vel == p.vel - g * delta
                 IN IF y <= jumpFloorY
                    THEN [p EXCEPT !.z = z, !.y = jumpFloorY, !.vel = 0,
                                   !.grounded = TRUE,
                                   !.active = playAction(stopAction(p.active, acts.jump),
                                                         acts.run, TRUE)]
                    ELSE [p EXCEPT !.z = z, !.y = y, !.vel = vel]
            ELSE [p EXCEPT !.z = z]

\* updatePlayer without "this.playerYVel = 0" on landing.
updatePlayerKeepsVelocity(p, delta, g, lane, acts) ==
    IF ~p.root THEN p
    ELSE LET z == damp(p.z, LANES[lane], LaneSmoothing, delta)
         IN IF ~p.grounded
            THEN LET vel == p.vel - g * delta
                     y   == p.y + vel * delta
                 IN IF y <= jumpFloorY
                    THEN [p EXCEPT !.z = z, !.y = jumpFloorY, !.vel = vel,
                                   !.grounded = TRUE,
                                   !.active = playAction(stopAction(p.active, acts.jump),
                                                         acts.run, TRUE)]
                    ELSE [p EXCEPT !.z = z, !.y = y, !.vel = vel]
            ELSE [p EXCEPT !.z = z]

\* updatePlayer: the new vertical state, lane position and mixer state.
updatePlayer(p, delta, g, lane, acts) ==
    IF ~p.root THEN p
    ELSE LET z == damp(p.z, LANES[lane], LaneSmoothing, delta)
         IN IF ~p.grounded
            THEN LET vel == p.vel - g * delta
                     y   == p.y + vel * delta
                 IN IF y <= jumpFloorY
                    THEN [p EXCEPT !.z = z, !.y = jumpFloorY, !.vel = 0,
                                   !.grounded = TRUE,
                                   !.active = playAction(stopAction(p.active, acts.jump),
                                                         acts.run, TRUE)]
                    ELSE [p EXCEPT !.z = z, !.y = y, !.vel = vel]
            ELSE [p EXCEPT !.z = z]

\* updateFloor: one pass over the segments; mostAheadX is read before the
\* pass moves anything.  Result: the new x of each segment and the indices
\* that were repositioned.
RECURSIVE FloorPass(_, _, _, _, _)
FloorPass(segs, i, mostAheadX, dx, rec) ==
    IF i > Len(segs) THEN [segs |-> segs, rec |-> rec]
    ELSE LET moved == segs[i] - dx
         IN IF moved < FloorBehindThreshold
            THEN FloorPass([segs EXCEPT ![i] = mostAheadX + floorSegmentLength],
                           i + 1, mostAheadX + floorSegmentLength, dx, rec \cup {i})
            ELSE FloorPass([segs EXCEPT ![i] = moved], i + 1, mostAheadX, dx, rec)

\* updateFloor without "mostAheadX = seg.position.x" after a reposition.
RECURSIVE FloorPassStaleMax(_, _, _, _, _)
FloorPassStaleMax(segs, i, mostAheadX, dx, rec) ==
    IF i > Len(segs) THEN [segs |-> segs, rec |-> rec]
    ELSE LET moved == segs[i] - dx
         IN IF moved < FloorBehindThreshold
            THEN FloorPassStaleMax([segs EXCEPT ![i] = mostAheadX + floorSegmentLength],
                                   i + 1, mostAheadX, dx, rec \cup {i})
            ELSE FloorPassStaleMax([segs EXCEPT ![i] = moved], i + 1, mostAheadX, dx, rec)

updateFloorStaleMax(segs, delta, speed) ==
    FloorPassStaleMax(segs, 1, MaxOver(segs, 1, NegInfinity), speed * delta, {})

\* updateFloor moving by the speed the game was constructed with.
updateFloorDefaultSpeed(segs, delta, speed) ==
    FloorPass(segs, 1, MaxOver(segs, 1, NegInfinity), DefaultGameSpeed * delta, {})

\* updateFloor removing a segment that fell behind instead of repositioning it.
updateFloorDropsBehind(segs, delta, speed) ==
    LET Ahead(x) == x >= FloorBehindThreshold
    IN [segs |-> SelectSeq([i \in DOMAIN segs |-> segs[i] - speed * delta], Ahead),
        rec  |-> {}]

\* updateFloor comparing with the threshold before "seg.position.x -= dx".
RECURSIVE FloorPassTestsBeforeMove(_, _, _, _, _)
FloorPassTestsBeforeMove(segs, i, mostAheadX, dx, rec) ==
    IF i > Len(segs) THEN [segs |-> segs, rec |-> rec]
    ELSE IF segs[i] < FloorBehindThreshold
         THEN FloorPassTestsBeforeMove(
                  [segs EXCEPT ![i] = mostAheadX + floorSegmentLength],
                  i + 1, mostAheadX + floorSegmentLength, dx, rec \cup {i})
         ELSE FloorPassTestsBeforeMove([segs EXCEPT ![i] = segs[i] - dx],
                                       i + 1, mostAheadX, dx, rec)

updateFloorTestsBeforeMove(segs, delta, speed) ==
    FloorPassTestsBeforeMove(segs, 1, MaxOver(segs, 1, NegInfinity),
                             speed * delta, {})

updateFloor(segs, delta, speed) ==
    FloorPass(segs, 1, MaxOver(segs, 1, NegInfinity), speed * delta, {})

ObstacleXs(obs) == [i \in DOMAIN obs |-> obs[i].x]

\* updateObstacles: the set of results of one pass, one for each outcome of
\* the two Math.random() calls made for every recycled obstacle.
RECURSIVE ObstaclePass(_, _, _, _, _)
ObstaclePass(obs, i, mostAheadX, dx, rec) ==
    IF i > Len(obs) THEN {[obs |-> obs, rec |-> rec]}
    ELSE LET moved == obs[i].x - dx
         IN IF moved < ObstacleBehindThreshold
            THEN UNION { ObstaclePass(
                            [obs EXCEPT ![i] = [x |-> mostAheadX + ObstacleSpacing + j,
                                                y |-> 0, lane |-> clampLaneIndex(l)]],
                            i + 1, mostAheadX + ObstacleSpacing + j, dx, rec \cup {i})
                         : <<l, j>> \in RandomDraws }
            ELSE ObstaclePass([obs EXCEPT ![i] = [@ EXCEPT !.x = moved]],
                              i + 1, mostAheadX, dx, rec)

\* updateObstacles without "mostAheadX = obs.position.x" after a recycling.
RECURSIVE ObstaclePassStaleMax(_, _, _, _, _)
ObstaclePassStaleMax(obs, i, mostAheadX, dx, rec) ==
    IF i > Len(obs) THEN {[obs |-> obs, rec |-> rec]}
    ELSE LET moved == obs[i].x - dx
         IN IF moved < ObstacleBehindThreshold
            THEN UNION { ObstaclePassStaleMax(
                            [obs EXCEPT ![i] = [x |-> mostAheadX + ObstacleSpacing + j,
                                                y |-> 0, lane |-> clampLaneIndex(l)]],
                            i + 1, mostAheadX, dx, rec \cup {i})
                         : <<l, j>> \in RandomDraws }
            ELSE ObstaclePassStaleMax([obs EXCEPT ![i] = [@ EXCEPT !.x = moved]],
                                      i + 1, mostAheadX, dx, rec)

updateObstaclesStaleMax(obs, delta, speed) ==
    ObstaclePassStaleMax(obs, 1, MaxOver(ObstacleXs(obs), 1, NegInfinity),
                         speed * delta, {})

\* updateObstacles placing a recycled obstacle ahead of its own moved position
\* instead of ahead of mostAheadX.
RECURSIVE ObstaclePassFromOwnX(_, _, _, _, _)
ObstaclePassFromOwnX(obs, i, mostAheadX, dx, rec) ==
    IF i > Len(obs) THEN {[obs |-> obs, rec |-> rec]}
    ELSE LET moved == obs[i].x - dx
         IN IF moved < ObstacleBehindThreshold
            THEN UNION { ObstaclePassFromOwnX(
                            [obs EXCEPT ![i] = [x |-> moved + ObstacleSpacing + j,
                                                y |-> 0, lane |-> clampLaneIndex(l)]],
                            i + 1, mostAheadX, dx, rec \cup {i})
                         : <<l, j>> \in RandomDraws }
            ELSE ObstaclePassFromOwnX([obs EXCEPT ![i] = [@ EXCEPT !.x = moved]],
                                      i + 1, mostAheadX, dx, rec)

updateObstaclesFromOwnX(obs, delta, speed) ==
    ObstaclePassFromOwnX(obs, 1, MaxOver(ObstacleXs(obs), 1, NegInfinity),
                         speed * delta, {})

updateObstacles(obs, delta, speed) ==
    ObstaclePass(obs, 1, MaxOver(ObstacleXs(obs), 1, NegInfinity), speed * delta, {})

\* Box3 as [min, max] per axis; y is in 1/100000, x and z in 1/1000.
PlayerBox(y, z) ==
    [minX |-> playerX - PlayerHalfExtent, maxX |-> playerX + PlayerHalfExtent,
     minY |-> y,                          maxY |-> y + PlayerHeight * 100,
     minZ |-> z - PlayerHalfExtent,       maxZ |-> z + PlayerHalfExtent]

ObstacleBox(o) ==
    [minX |-> o.x - ObstacleHalfExtent,   maxX |-> o.x + ObstacleHalfExtent,
     minY |-> o.y,                        maxY |-> o.y + ObstacleHeight * 100,
     minZ |-> LANES[o.lane] - ObstacleHalfExtent,
     maxZ |-> LANES[o.lane] + ObstacleHalfExtent]

\* intersectsBox testing only whether b ends before a starts.
intersectsBoxOneSided(a, b) ==
    ~(b.maxX < a.minX \/ b.maxY < a.minY \/ b.maxZ < a.minZ)

\* intersectsBox without the test on the z axis.
intersectsBoxIgnoringZ(a, b) ==
    ~(  b.maxX < a.minX \/ b.minX > a.maxX
     \/ b.maxY < a.minY \/ b.minY > a.maxY)

\* Box3.intersectsBox
intersectsBox(a, b) ==
    ~(  b.maxX < a.minX \/ b.minX > a.maxX
     \/ b.maxY < a.minY \/ b.minY > a.maxY
     \/ b.maxZ < a.minZ \/ b.minZ > a.maxZ)

\* checkCollisions: the scan in pool order from obstacle i on, called in state
\* running; the first intersecting obstacle calls die(), which performs
\* setState("dead"), and the scan returns.  Result: the number of
\* setState("dead") calls made.
RECURSIVE CollisionScan(_, _, _)
CollisionScan(playerBox, obs, i) ==
    IF i > Len(obs) THEN 0
    ELSE IF intersectsBox(playerBox, ObstacleBox(obs[i])) THEN 1
    ELSE CollisionScan(playerBox, obs, i + 1)

checkCollisions(hasPlayer, y, z, obs) ==
    IF ~hasPlayer THEN 0 ELSE CollisionScan(PlayerBox(y, z), obs, 1)

\* ------------------------------------------------------- initial layout
\* setupFloor: seg.position.x = -20 + i * floorSegmentLength
FloorLayout(n) == [i \in 1..n |-> FloorStartX + (i - 1) * floorSegmentLength]

\* The obstacle layout with every obstacle put in the middle lane.
ObstacleLayoutSingleLane(n) ==
    [i \in 1..n |-> [x |-> ObstacleStartX + (i - 1) * ObstacleSpacing, y |-> 0, lane |-> 1]]

\* load / restart: obstacle i at x = 18 + i * 16 in lane i % 3
ObstacleLayout(n) ==
    [i \in 1..n |-> [x |-> ObstacleStartX + (i - 1) * ObstacleSpacing,
                     y |-> 0, lane |-> (i - 1) % 3]]

\* Field initialisers and constructor of Game; App starts with gameState
\* "loading".  cl is the clip list of the player asset, fixed before the run.
Constructed(cl) ==
    /\ state = "loading"
    /\ uiState = "loading"
    /\ loadState = "pending"
    /\ disposed = FALSE
    /\ listening = TRUE
    /\ rafId = "null"
    /\ scheduled = 0
    /\ clockRunning = FALSE
    /\ elapsed = 0
    /\ gameSpeed = DefaultGameSpeed
    /\ gravity = DefaultGravity
    /\ clips = cl
    /\ playerRoot = FALSE
    /\ playerZ = 0
    /\ playerActions = NoActions
    /\ active = <<>>
    /\ currentLane = 1
    /\ targetLane = 1
    /\ playerY = 0
    /\ playerYVel = 0
    /\ grounded = TRUE
    /\ cameraFollowX = 0
    /\ floorSegments = FloorLayout(segmentCount)
    /\ obstacles = <<>>
    /\ parallaxLayers = <<>>
    /\ texturesPending = 1..layerCount
    /\ frames = 0
    /\ lastDelta = 0
    /\ lastFrameState = "none"
    /\ recycledFloor = {}
    /\ recycledObstacles = {}
    /\ sinceStart = 0
    /\ awaitingFirst = FALSE
    /\ restarted = FALSE
    /\ deadCalls = 0
    /\ airFrames = 0
    /\ lastSteps = <<>>

Init == \E cl \in ClipLists : Constructed(cl)

\* --------------------------------------------------------------- actions
\* setState without "this.opts?.onStateChange?.(next)".
setStateSilent(next) ==
    /\ state' = next
    /\ UNCHANGED uiState

\* setState(next): the field and the onStateChange callback (App.setGameState).
setState(next) ==
    /\ state' = next
    /\ uiState' = next

\* THREE.Clock.getDelta(): 0 on the call that starts the clock, otherwise the
\* time since the previous call; afterwards the clock runs and oldTime = now.
getDelta == IF clockRunning THEN elapsed ELSE 0

ClockRead ==
    /\ clockRunning' = TRUE
    /\ elapsed' = 0

\* The steps update() executes when entered in state st, in call order.
updateSteps(st) ==
    IF st = "loading" THEN <<>>
    ELSE IF st = "dead" THEN <<"camera", "parallax", "mixer">>
    ELSE IF st # "running" THEN <<"camera", "parallax">>
    ELSE <<"camera", "parallax", "mixer", "player", "floor", "obstacles",
           "collisions">>

\* checkCollisions run before updatePlayer, updateFloor and updateObstacles.
CollisionViewBeforeMoving(before, after) == before

\* What checkCollisions reads of a position: it is the last step of update(),
\* so it reads the value left by the steps before it.
CollisionView(before, after) == after

\* update(delta), entered with the game in state st, player p, camera cam.
update(st, delta) ==
    /\ lastDelta' = delta
    /\ lastSteps' = updateSteps(st)
    /\ lastFrameState' = st
    /\ IF st = "loading"
       THEN /\ deadCalls' = 0
            /\ UNCHANGED <<state, uiState, cameraFollowX, parallaxLayers, playerZ,
                           playerY, playerYVel, grounded, active, floorSegments,
                           obstacles, recycledFloor, recycledObstacles,
                           sinceStart, awaitingFirst, airFrames>>
       ELSE /\ cameraFollowX' = updateCamera(cameraFollowX, playerRoot, delta)
            /\ parallaxLayers' =
                   updateParallax(parallaxLayers, delta, gameSpeed, st = "running")
            /\ IF st # "running"
               THEN /\ deadCalls' = 0
                    /\ UNCHANGED <<state, uiState, playerZ, playerY, playerYVel,
                                   grounded, active, floorSegments, obstacles,
                                   recycledFloor, recycledObstacles,
                                   sinceStart, awaitingFirst, airFrames>>
               ELSE LET p == updatePlayer(
                                [root |-> playerRoot, z |-> playerZ, y |-> playerY,
                                 vel |-> playerYVel, grounded |-> grounded,
                                 active |-> active],
                                delta, gravity, targetLane, playerActions)
                        fl == updateFloor(floorSegments, delta, gameSpeed)
                    IN \E ob \in updateObstacles(obstacles, delta, gameSpeed) :
                        /\ playerZ' = p.z
                        /\ playerY' = p.y
                        /\ playerYVel' = p.vel
                        /\ grounded' = p.grounded
                        /\ floorSegments' = fl.segs
                        /\ recycledFloor' = fl.rec
                        /\ obstacles' = ob.obs
                        /\ recycledObstacles' = ob.rec
                        /\ sinceStart' = 0
                        /\ awaitingFirst' = FALSE
                        /\ airFrames' = IF p.grounded THEN 0 ELSE airFrames + 1
                        \* checkCollisions -> die
                        /\ deadCalls' = checkCollisions(playerRoot,
                                                        CollisionView(playerY, p.y),
                                                        CollisionView(playerZ, p.z),
                                                        CollisionView(obstacles, ob.obs))
                        /\ IF checkCollisions(playerRoot,
                                              CollisionView(playerY, p.y),
                                              CollisionView(playerZ, p.z),
                                              CollisionView(obstacles, ob.obs)) > 0
                           THEN /\ setState("dead")
                                /\ active' = playAction(stopAllAction(p.active),
                                                        playerActions.death, FALSE)
                           ELSE /\ UNCHANGED <<state, uiState>>
                                /\ active' = p.active

\* tick without "this.rafId = requestAnimationFrame(this.tick)".
tickNoReschedule ==
    /\ scheduled > 0
    /\ restarted' = FALSE
    /\ rafId' = "set"
    /\ scheduled' = scheduled - 1
    /\ frames' = frames + 1
    /\ ClockRead
    /\ update(state, getDelta)
    /\ UNCHANGED <<loadState, disposed, listening, gameSpeed, gravity, clips,
                   playerRoot, playerActions, currentLane, targetLane,
                   texturesPending>>

\* tick requesting two animation frames instead of one.
tickRequestsTwice ==
    /\ scheduled > 0
    /\ restarted' = FALSE
    /\ rafId' = "set"
    /\ scheduled' = (scheduled - 1) + 2
    /\ frames' = frames + 1
    /\ ClockRead
    /\ update(state, getDelta)
    /\ UNCHANGED <<loadState, disposed, listening, gameSpeed, gravity, clips,
                   playerRoot, playerActions, currentLane, targetLane,
                   texturesPending>>

\* The frame callback: tick.  It consumes the pending callback and requests
\* the next one before anything else.
tick ==
    /\ scheduled > 0
    /\ restarted' = FALSE
    /\ rafId' = "set"
    /\ scheduled' = (scheduled - 1) + 1
    /\ frames' = frames + 1
    /\ ClockRead
    /\ update(state, getDelta)
    /\ UNCHANGED <<loadState, disposed, listening, gameSpeed, gravity, clips,
                   playerRoot, playerActions, currentLane, targetLane,
                   texturesPending>>

\* The frames explored by the bounded specifications.
Tick == frames < MaxFrames /\ tick

\* load(), from the point where both loadAsync promises have resolved; it
\* ends by calling tick() itself, which runs update() in state "ready".
LoadResolve ==
    /\ loadState = "pending"
    /\ loadState' = "resolved"
    /\ restarted' = FALSE
    /\ deadCalls' = 0
    /\ lastSteps' = updateSteps("ready")
    /\ UNCHANGED airFrames
    /\ playerRoot' = TRUE
    /\ playerZ' = LANES[currentLane]
    /\ playerActions' = buildCharacterActions(clips)
    /\ active' = playAction([a \in DOMAIN clips |-> "stopped"],
                            buildCharacterActions(clips).idle, TRUE)
    /\ obstacles' = ObstacleLayout(obstacleCount)
    /\ setState("ready")
    \* tick()
    /\ rafId' = "set"
    /\ scheduled' = scheduled + 1
    /\ frames' = frames + 1
    /\ ClockRead
    /\ lastDelta' = getDelta
    /\ lastFrameState' = "ready"
    /\ cameraFollowX' = updateCamera(cameraFollowX, TRUE, getDelta)
    /\ parallaxLayers' = updateParallax(parallaxLayers, getDelta, gameSpeed, FALSE)
    /\ UNCHANGED <<disposed, listening, gameSpeed, gravity, clips, currentLane,
                   targetLane, playerY, playerYVel, grounded, floorSegments,
                   texturesPending, recycledFloor, recycledObstacles, sinceStart,
                   awaitingFirst>>

\* A rejected load that still starts the frame loop.
LoadRejectStartsLoop ==
    /\ loadState = "pending"
    /\ loadState' = "rejected"
    /\ restarted' = FALSE
    /\ rafId' = "set"
    /\ scheduled' = scheduled + 1
    /\ UNCHANGED <<state, uiState, disposed, listening,
                   clockRunning, elapsed, gameSpeed, gravity, clips, playerRoot,
                   playerZ, playerActions, active, currentLane, targetLane,
                   playerY, playerYVel, grounded, cameraFollowX, floorSegments,
                   obstacles, parallaxLayers, texturesPending, frames, lastDelta,
                   lastFrameState, recycledFloor, recycledObstacles, sinceStart,
                   awaitingFirst, deadCalls, airFrames, lastSteps>>

\* Promise.all rejects: the rest of load() never runs and nothing catches it.
LoadReject ==
    /\ loadState = "pending"
    /\ loadState' = "rejected"
    /\ restarted' = FALSE
    /\ UNCHANGED <<deadCalls, airFrames, lastSteps>>
    /\ UNCHANGED <<state, uiState, disposed, listening, rafId, scheduled,
                   clockRunning, elapsed, gameSpeed, gravity, clips, playerRoot,
                   playerZ, playerActions, active, currentLane, targetLane,
                   playerY, playerYVel, grounded, cameraFollowX, floorSegments,
                   obstacles, parallaxLayers, texturesPending, frames, lastDelta,
                   lastFrameState, recycledFloor, recycledObstacles, sinceStart,
                   awaitingFirst>>

\* setupParallax: the TextureLoader callback of layer i.
TextureLoaded(i) ==
    /\ i \in texturesPending
    /\ texturesPending' = texturesPending \ {i}
    /\ restarted' = FALSE
    /\ UNCHANGED <<deadCalls, airFrames, lastSteps>>
    /\ parallaxLayers' = Append(parallaxLayers, [id |-> i, offset |-> 0])
    /\ UNCHANGED <<state, uiState, loadState, disposed, listening, rafId, scheduled,
                   clockRunning, elapsed, gameSpeed, gravity, clips, playerRoot,
                   playerZ, playerActions, active, currentLane, targetLane,
                   playerY, playerYVel, grounded, cameraFollowX, floorSegments,
                   obstacles, frames, lastDelta, lastFrameState, recycledFloor,
                   recycledObstacles, sinceStart, awaitingFirst>>

\* Wall-clock time advances between events.
Wait(d) ==
    /\ clockRunning
    /\ d > elapsed
    /\ elapsed' = d
    /\ restarted' = FALSE
    /\ UNCHANGED <<deadCalls, airFrames, lastSteps>>
    /\ sinceStart' = IF awaitingFirst THEN sinceStart + (d - elapsed) ELSE sinceStart
    /\ UNCHANGED <<state, uiState, loadState, disposed, listening, rafId, scheduled,
                   clockRunning, gameSpeed, gravity, clips, playerRoot,
                   playerZ, playerActions, active, currentLane, targetLane,
                   playerY, playerYVel, grounded, cameraFollowX, floorSegments,
                   obstacles, parallaxLayers, texturesPending, frames, lastDelta,
                   lastFrameState, recycledFloor, recycledObstacles, awaitingFirst>>

\* onKeyDown: e.code === "Enter" && this.state === "ready"
EnterStartsAnyState(code, st) == code = "Enter"

EnterStarts(code, st) == code = "Enter" /\ st = "ready"

\* onKeyDown: if (!this.grounded) return;
CanJumpAlways(isGrounded) == TRUE

CanJump(isGrounded) == isGrounded

\* onKeyDown / restart: this.clock.getDelta() after the state change.
ResetFrameClockMissing == UNCHANGED <<clockRunning, elapsed>>

ResetFrameClock == ClockRead

\* restart: if (!this.playerRoot) return;
RestartNeverSkips(hasPlayer) == FALSE

RestartSkips(hasPlayer) == ~hasPlayer

\* onKeyDown: if (this.state !== "running") return;
KeysIgnoredOnlyLoading(st) == st = "loading"

KeysIgnored(st) == st # "running"

\* onKeyDown(e), delivered while the listener is attached.
onKeyDown(code) ==
    /\ listening
    /\ restarted' = FALSE
    /\ UNCHANGED <<deadCalls, lastSteps>>
    /\ IF EnterStarts(code, state)
       THEN /\ active' = playAction(stopAllAction(active), playerActions.run, TRUE)
            /\ setState("running")
            /\ ResetFrameClock
            /\ sinceStart' = 0
            /\ awaitingFirst' = TRUE
            /\ UNCHANGED <<targetLane, grounded, playerYVel, airFrames>>
       ELSE IF KeysIgnored(state)
       THEN UNCHANGED <<state, uiState, clockRunning, elapsed, active, targetLane,
                        grounded, playerYVel, sinceStart, awaitingFirst, airFrames>>
       ELSE /\ UNCHANGED <<state, uiState, clockRunning, elapsed, sinceStart,
                           awaitingFirst>>
            /\ targetLane' =
                 IF code \in {"ArrowLeft", "KeyA"} THEN clampLaneIndex(targetLane - 1)
                 ELSE IF code \in {"ArrowRight", "KeyD"} THEN clampLaneIndex(targetLane + 1)
                 ELSE targetLane
            /\ IF code = "Space" /\ CanJump(grounded)
               THEN /\ grounded' = FALSE
                    /\ playerYVel' = JumpImpulse
                    /\ airFrames' = 0
                    /\ active' = playAction(stopAction(active, playerActions.run),
                                            playerActions.jump, FALSE)
               ELSE UNCHANGED <<grounded, playerYVel, active, airFrames>>
    /\ UNCHANGED <<loadState, disposed, listening, rafId, scheduled, gameSpeed,
                   gravity, clips, playerRoot, playerZ, playerActions, currentLane,
                   playerY, cameraFollowX, floorSegments, obstacles, parallaxLayers,
                   texturesPending, frames, lastDelta, lastFrameState,
                   recycledFloor, recycledObstacles>>

\* restart()
restart ==
    /\ restarted' = TRUE
    /\ UNCHANGED <<deadCalls, lastSteps>>
    /\ IF RestartSkips(playerRoot)
       THEN UNCHANGED <<state, uiState, loadState, disposed, listening, rafId,
                        scheduled, clockRunning, elapsed, gameSpeed, gravity, clips,
                        playerRoot, playerZ, playerActions, active, currentLane,
                        targetLane, playerY, playerYVel, grounded, cameraFollowX,
                        floorSegments, obstacles, parallaxLayers, texturesPending,
                        frames, lastDelta, lastFrameState, recycledFloor,
                        recycledObstacles, sinceStart, awaitingFirst, airFrames>>
       ELSE
         /\ airFrames' = 0
         /\ currentLane' = 1
         /\ targetLane' = 1
         /\ playerY' = 0
         /\ playerYVel' = 0
         /\ grounded' = TRUE
         /\ playerZ' = LANES[1]
         /\ cameraFollowX' = 0
         /\ floorSegments' = FloorLayout(Len(floorSegments))
         /\ obstacles' = ObstacleLayout(Len(obstacles))
         /\ active' = playAction(stopAllAction(active), playerActions.run, TRUE)
         /\ setState("running")
         /\ ResetFrameClock
         /\ sinceStart' = 0
         /\ awaitingFirst' = TRUE
         /\ UNCHANGED <<loadState, disposed, listening, rafId, scheduled, gameSpeed,
                        gravity, clips, playerRoot, playerActions, parallaxLayers,
                        texturesPending, frames, lastDelta, lastFrameState,
                        recycledFloor, recycledObstacles>>

\* dispose without 'window.removeEventListener("keydown", ...)'.
disposeKeepsListener ==
    /\ ~disposed
    /\ disposed' = TRUE
    /\ restarted' = FALSE
    /\ UNCHANGED <<deadCalls, airFrames, lastSteps>>
    /\ scheduled' = IF rafId # "null" THEN scheduled - 1 ELSE scheduled
    /\ rafId' = "null"
    /\ listening' = listening
    /\ floorSegments' = <<>>
    /\ parallaxLayers' = <<>>
    /\ obstacles' = <<>>
    /\ playerRoot' = FALSE
    /\ UNCHANGED <<state, uiState, loadState, clockRunning, elapsed, gameSpeed,
                   gravity, clips, playerZ, playerActions, active, currentLane,
                   targetLane, playerY, playerYVel, grounded, cameraFollowX,
                   texturesPending, frames, lastDelta, lastFrameState,
                   recycledFloor, recycledObstacles, sinceStart, awaitingFirst>>

\* dispose(), called once by App when the component unmounts.
dispose ==
    /\ ~disposed
    /\ disposed' = TRUE
    /\ restarted' = FALSE
    /\ UNCHANGED <<deadCalls, airFrames, lastSteps>>
    /\ scheduled' = IF rafId # "null" THEN scheduled - 1 ELSE scheduled
    /\ rafId' = "null"
    /\ listening' = FALSE
    /\ floorSegments' = <<>>
    /\ parallaxLayers' = <<>>
    /\ obstacles' = <<>>
    /\ playerRoot' = FALSE
    /\ UNCHANGED <<state, uiState, loadState, clockRunning, elapsed, gameSpeed,
                   gravity, clips, playerZ, playerActions, active, currentLane,
                   targetLane, playerY, playerYVel, grounded, cameraFollowX,
                   texturesPending, frames, lastDelta, lastFrameState,
                   recycledFloor, recycledObstacles, sinceStart, awaitingFirst>>

\* setupDebug: the "Game Speed" and "Gravity" sliders write config directly.
SetGameSpeed(v) ==
    /\ ~disposed
    /\ v # gameSpeed
    /\ gameSpeed' = v
    /\ restarted' = FALSE
    /\ UNCHANGED <<deadCalls, airFrames, lastSteps>>
    /\ UNCHANGED <<state, uiState, loadState, disposed, listening, rafId, scheduled,
                   clockRunning, elapsed, gravity, clips, playerRoot,
                   playerZ, playerActions, active, currentLane, targetLane,
                   playerY, playerYVel, grounded, cameraFollowX, floorSegments,
                   obstacles, parallaxLayers, texturesPending, frames, lastDelta,
                   lastFrameState, recycledFloor, recycledObstacles, sinceStart,
                   awaitingFirst>>

SetGravity(v) ==
    /\ ~disposed
    /\ v # gravity
    /\ gravity' = v
    /\ restarted' = FALSE
    /\ UNCHANGED <<deadCalls, airFrames, lastSteps>>
    /\ UNCHANGED <<state, uiState, loadState, disposed, listening, rafId, scheduled,
                   clockRunning, elapsed, gameSpeed, clips, playerRoot,
                   playerZ, playerActions, active, currentLane, targetLane,
                   playerY, playerYVel, grounded, cameraFollowX, floorSegments,
                   obstacles, parallaxLayers, texturesPending, frames, lastDelta,
                   lastFrameState, recycledFloor, recycledObstacles, sinceStart,
                   awaitingFirst>>

KeyDown == \E code \in KeyCodes : onKeyDown(code)
StartKey == onKeyDown("Enter")
TextureLoad == \E i \in ArrivingLayers : TextureLoaded(i)
TimePasses == \E d \in Deltas : Wait(d)
WorldTimePasses == \E d \in WorldDeltas : Wait(d)
DebugSpeed == \E v \in GameSpeeds : SetGameSpeed(v)
DebugGravity == \E v \in Gravities : SetGravity(v)

\* The game driven by its asynchronous load, the keyboard, the frame loop and
\* the App (restart button, unmount), with the configuration left at its
\* defaults.
Next ==
    \/ LoadResolve
    \/ LoadReject
    \/ TimePasses
    \/ Tick
    \/ KeyDown
    \/ restart
    \/ dispose

Spec == Init /\ [][Next]_vars

\* The scrolling world: the game started and restarted, frames at every speed
\* of the debug panel, background textures arriving, teardown.
NextWorld ==
    \/ LoadResolve
    \/ WorldTimePasses
    \/ Tick
    \/ StartKey
    \/ restart
    \/ dispose
    \/ DebugSpeed

InitWorld == Init /\ Len(clips) = 4

SpecWorld == InitWorld /\ [][NextWorld]_vars

\* The scenery: frames in every game state with background textures arriving,
\* the game started by Enter and restarted, at the default speed.
NextScenery ==
    \/ LoadResolve
    \/ TextureLoad
    \/ TimePasses
    \/ Tick
    \/ StartKey
    \/ restart
    \/ dispose

SpecScenery == InitWorld /\ [][NextScenery]_vars

\* Tuning: a loaded game started by Enter, the player jumping, frames arriving
\* while both sliders of the debug panel are moved.
SpaceKey == onKeyDown("Space")

NextTuning ==
    \/ LoadResolve
    \/ WorldTimePasses
    \/ Tick
    \/ StartKey
    \/ SpaceKey
    \/ DebugSpeed
    \/ DebugGravity

SpecTuning == InitWorld /\ [][NextTuning]_vars

\* Player assets: every clip list of up to MaxClips clips whose names contain
\* no role word, one of them, "standing" (which contains "stand"), or both
\* "run" and "jump".
ClipNames ==
    { {}, {"run"}, {"jump"}, {"death"}, {"idle"}, {"stand"},
      {"standing", "stand"}, {"run", "jump"} }

AssetClipLists == UNION { [1..n -> ClipNames] : n \in 0..MaxClips }

InitAssets == \E cl \in AssetClipLists : Constructed(cl)

\* The game loaded from any of these assets, started, jumping, landing (a
\* frame lands the player at once when no time has passed) and restarted.
NextAssets ==
    \/ LoadResolve
    \/ StartKey
    \/ SpaceKey
    \/ Tick
    \/ restart

SpecAssets == InitAssets /\ [][NextAssets]_vars

\* A stalled frame loop: requestAnimationFrame delivers no callback while the
\* page is hidden, and the clock keeps running, so the first frame after the
\* game was started can arrive with a delta of seconds (1/100 s).
StallDeltas == {800}

Stall == awaitingFirst /\ state = "running" /\ \E d \in StallDeltas : Wait(d)

NextStall ==
    \/ LoadResolve
    \/ StartKey
    \/ Stall
    \/ WorldTimePasses
    \/ Tick

SpecStall == InitWorld /\ [][NextStall]_vars

\* Frame periods of the fixed-rate jump runs, 1/100 s.
JumpDeltas == {1, 2, 5, 10, 20, 40, 70}

\* A loaded game that was started by Enter with the world speed slider at 0
\* (nothing scrolls, so nothing is hit) and the gravity slider at g, and has
\* run its second frame with period d.
RunningAfterFirstFrame(d, g) ==
      LET cl == <<{"idle"}, {"run"}, {"jump"}, {"death"}>>
          acts == buildCharacterActions(cl)
      IN
        /\ state = "running"
        /\ uiState = "running"
        /\ loadState = "resolved"
        /\ disposed = FALSE
        /\ listening = TRUE
        /\ rafId = "set"
        /\ scheduled = 1
        /\ clockRunning = TRUE
        /\ elapsed = 0
        /\ gameSpeed = 0
        /\ gravity = g
        /\ clips = cl
        /\ playerRoot = TRUE
        /\ playerZ = LANES[1]
        /\ playerActions = acts
        /\ active = playAction([a \in DOMAIN cl |-> "stopped"], acts.run, TRUE)
        /\ currentLane = 1
        /\ targetLane = 1
        /\ playerY = 0
        /\ playerYVel = 0
        /\ grounded = TRUE
        /\ cameraFollowX = updateCamera(0, TRUE, d)
        /\ floorSegments = FloorLayout(segmentCount)
        /\ obstacles = ObstacleLayout(obstacleCount)
        /\ parallaxLayers = <<>>
        /\ texturesPending = 1..layerCount
        /\ frames = 2
        /\ lastDelta = d
        /\ lastFrameState = "running"
        /\ recycledFloor = {}
        /\ recycledObstacles = {}
        /\ sinceStart = 0
        /\ awaitingFirst = FALSE
        /\ restarted = FALSE
        /\ deadCalls = 0
        /\ airFrames = 0
        /\ lastSteps = updateSteps("running")

\* One jump at a fixed frame rate: Space is pressed right after the second
\* frame and frames then arrive at that frame's period until the player lands.
InitJump == \E d \in JumpDeltas : RunningAfterFirstFrame(d, DefaultGravity)

JumpAtFrameStart == grounded /\ frames = 2 /\ elapsed = 0 /\ onKeyDown("Space")
FixedWait == ~grounded /\ Wait(lastDelta)
FixedFrame == ~grounded /\ elapsed = lastDelta /\ tick

NextJump ==
    \/ JumpAtFrameStart
    \/ FixedWait
    \/ FixedFrame

SpecJump == InitJump /\ [][NextJump]_vars

\* One jump with the gravity slider at its lowest value, at one unit, at the
\* default and at the highest value explored, frames arriving every 0.7 s.
\* The browser keeps delivering frame callbacks and the clock keeps running,
\* so both steps are weakly fair; the frames in the air are explored up to
\* MaxAirFrames.
FallGravities == Gravities \cup {10}
FallDelta == 70

InitFall == \E g \in FallGravities : RunningAfterFirstFrame(FallDelta, g)

FallFrame == airFrames < MaxAirFrames /\ FixedFrame

NextFall ==
    \/ JumpAtFrameStart
    \/ FixedWait
    \/ FallFrame

SpecFall ==
    InitFall /\ [][NextFall]_vars /\ WF_vars(FixedWait) /\ WF_vars(FallFrame)

\* ================================================================ claims
\* A step in which update() ran: every tick() execution, with the state in
\* which update() started.
FrameIn(st) == frames' = frames + 1 /\ lastFrameState' = st

AllowedTransitions ==
    { <<"loading", "ready">>, <<"ready", "running">>,
      <<"running", "dead">>, <<"dead", "running">> }

\* C1: every step either keeps the game state or follows one of the edges
\* loading->ready, ready->running, running->dead, dead->running; so dead is
\* entered only from running and no step returns to loading or ready.
C1_Transitions ==
    [][state' # state => <<state, state'>> \in AllowedTransitions]_vars

\* C1 witness: the full cycle has run: a frame was executed in state dead and
\* restart() has since brought the game back to running.
C1_Witness == state = "running" /\ lastFrameState = "dead" /\ restarted

\* C2 (as claimed): once dispose() has returned no frame callback is pending
\* and none is scheduled, whether dispose() came before or after the load.
C2_TeardownCancelsLoop == disposed => (rafId = "null" /\ scheduled = 0)

\* C3 (as claimed): whenever restart() has just returned the state is running.
C3_RestartAlwaysRunning == restarted => state = "running"

\* C3 (amended): restart() moves the state to running when the player model is
\* present (loaded and not disposed); otherwise it leaves the state as it was.
C3_RestartWhenLoaded ==
    [][restarted' => IF playerRoot THEN state' = "running" ELSE state' = state]_vars

\* C3 witness: restart() has just returned a dead game to running.
C3_Witness == restarted /\ playerRoot /\ state = "running" /\ uiState = "running"
              /\ lastFrameState = "dead" /\ frames = MaxFrames

\* x of the members present before and after a step changed / a texture offset
\* of a layer present before and after a step changed.
FloorMoved ==
    \E i \in DOMAIN floorSegments \cap DOMAIN floorSegments' :
        floorSegments'[i] # floorSegments[i]

ObstaclesMoved ==
    \E i \in DOMAIN obstacles \cap DOMAIN obstacles' :
        obstacles'[i].x # obstacles[i].x

ParallaxMoved ==
    \E i \in DOMAIN parallaxLayers \cap DOMAIN parallaxLayers' :
        /\ parallaxLayers'[i].id = parallaxLayers[i].id
        /\ parallaxLayers'[i].offset # parallaxLayers[i].offset

\* C4: floor x, obstacle x and parallax texture offsets change only in a frame
\* that update() starts in state running, or (floor and obstacles) in restart();
\* a frame in loading, ready or dead leaves all of them unchanged.
C4_WorldFrozenOutsideRunning ==
    [][ /\ (FloorMoved \/ ObstaclesMoved) => (FrameIn("running") \/ restarted')
        /\ ParallaxMoved => FrameIn("running") ]_vars

\* C4 witness: a frame with a positive delta has run in state dead while a
\* loaded layer had already scrolled and the pools had already moved.
C4_Witness ==
    /\ lastFrameState = "dead" /\ lastDelta > 0
    /\ Len(parallaxLayers) > 0 /\ parallaxLayers[1].offset > 0
    /\ floorSegments # FloorLayout(segmentCount)

\* C5: the target lane is always 0, 1 or 2; a lane key handled in state running
\* moves it by exactly one, except that left at lane 0 and right at lane 2
\* leave it unchanged.
C5_LaneClamped ==
    /\ [](targetLane \in {0, 1, 2})
    /\ [][ /\ \A code \in {"ArrowLeft", "KeyA"} :
                (onKeyDown(code) /\ state = "running") =>
                    targetLane' = (IF targetLane = 0 THEN 0 ELSE targetLane - 1)
           /\ \A code \in {"ArrowRight", "KeyD"} :
                (onKeyDown(code) /\ state = "running") =>
                    targetLane' = (IF targetLane = 2 THEN 2 ELSE targetLane + 1) ]_vars

\* C5 witness: the running game has been shifted to the boundary lane 0, where
\* a further left key is pending as a no-op.
C5_Witness == state = "running" /\ targetLane = 0 /\ listening

\* C6 (as claimed): in a running frame every recycled member ends strictly
\* ahead of its own previous x and of every other member at the end of the frame.
C6_RecycledAheadOfAll ==
    [][ FrameIn("running") =>
          /\ \A i \in recycledFloor' :
                /\ floorSegments'[i] > floorSegments[i]
                /\ \A j \in DOMAIN floorSegments' \ {i} :
                      floorSegments'[i] > floorSegments'[j]
          /\ \A i \in recycledObstacles' :
                /\ obstacles'[i].x > obstacles[i].x
                /\ \A j \in DOMAIN obstacles' \ {i} :
                      obstacles'[i].x > obstacles'[j].x ]_vars

\* C6 (amended): in a running frame every recycled member ends strictly ahead
\* of its own previous x and of every other member at the end of the frame,
\* except the members recycled after it in the same frame.
C6_RecycledAheadOfEarlier ==
    [][ FrameIn("running") =>
          /\ \A i \in recycledFloor' :
                /\ floorSegments'[i] > floorSegments[i]
                /\ \A j \in DOMAIN floorSegments' \ {i} :
                      (j \notin recycledFloor' \/ j < i) =>
                          floorSegments'[i] > floorSegments'[j]
          /\ \A i \in recycledObstacles' :
                /\ obstacles'[i].x > obstacles[i].x
                /\ \A j \in DOMAIN obstacles' \ {i} :
                      (j \notin recycledObstacles' \/ j < i) =>
                          obstacles'[i].x > obstacles'[j].x ]_vars

\* C6 witness: the latest running frame recycled a floor segment and an obstacle.
C6_Witness ==
    lastFrameState = "running" /\ recycledFloor # {} /\ recycledObstacles # {}

Abs(n) == IF n < 0 THEN -n ELSE n

\* C7: any two floor segments are at least one segment length apart and any
\* two obstacles at least the minimum spacing apart.
C7_NoOverlap ==
    /\ \A i, j \in DOMAIN floorSegments :
          i # j => Abs(floorSegments[i] - floorSegments[j]) >= floorSegmentLength
    /\ \A i, j \in DOMAIN obstacles :
          i # j => Abs(obstacles[i].x - obstacles[j].x) >= ObstacleSpacing

\* C7 witness: one running frame has recycled several floor segments and
\* several obstacles.
C7_Witness ==
    /\ lastFrameState = "running"
    /\ Cardinality(recycledFloor) >= 2
    /\ Cardinality(recycledObstacles) >= 2

\* C8 (as claimed): the floor strip stays contiguous: every segment but the
\* front-most has a neighbour exactly one segment length ahead of it.
C8_FloorContiguous ==
    \A i \in DOMAIN floorSegments :
        \/ \A j \in DOMAIN floorSegments : floorSegments[j] <= floorSegments[i]
        \/ \E j \in DOMAIN floorSegments :
              floorSegments[j] = floorSegments[i] + floorSegmentLength

\* C9: the first update() in running after Enter or restart() is passed the
\* time elapsed since that call, nothing older.
C9_FirstDeltaSinceStart ==
    [][ (FrameIn("running") /\ awaitingFirst) => lastDelta' = sinceStart ]_vars

\* C9 witness: the first running frame after the start has run with a positive
\* delta.
C9_Witness ==
    lastFrameState = "running" /\ ~awaitingFirst /\ lastDelta > 0 /\ frames = 2

\* The fields of Game and App and the browser's pending work, without the
\* history variables of the model.
gameVars ==
    <<state, uiState, loadState, disposed, listening, rafId, scheduled,
      clockRunning, elapsed, gameSpeed, gravity, clips, playerRoot, playerZ,
      playerActions, active, currentLane, targetLane, playerY, playerYVel,
      grounded, cameraFollowX, floorSegments, obstacles, parallaxLayers,
      texturesPending>>

\* C10: Space in state running while grounded sets the vertical velocity to the
\* jump impulse and clears grounded; Space while airborne changes nothing.
C10_JumpOnlyWhenGrounded ==
    [][ (onKeyDown("Space") /\ state = "running") =>
           IF grounded
           THEN playerYVel' = JumpImpulse /\ ~grounded'
           ELSE UNCHANGED gameVars ]_vars

\* C10 witness: the player is airborne in a running game after a frame has
\* already reduced the jump velocity.
C10_Witness ==
    state = "running" /\ ~grounded /\ playerYVel > 0 /\ playerYVel < JumpImpulse

\* C11: when restart() has just returned on a game whose player model is
\* present, the lanes are 1, the vertical position and velocity are 0, the
\* player is grounded in the middle lane, the camera follow offset is 0, floor
\* segment i is at -20 + 28*i and obstacle i at 18 + 16*i in lane i mod 3
\* (i from 0), all 7 obstacles of the load; a second restart() right after the
\* first changes nothing.
C11_RestartResets ==
    /\ [](restarted /\ playerRoot =>
            /\ targetLane = 1 /\ currentLane = 1
            /\ playerY = 0 /\ playerYVel = 0 /\ grounded
            /\ playerZ = 0 /\ cameraFollowX = 0
            /\ \A i \in DOMAIN floorSegments :
                  floorSegments[i] = -20000 + 28000 * (i - 1)
            /\ Len(obstacles) = 7
            /\ \A i \in DOMAIN obstacles :
                  /\ obstacles[i].x = 18000 + 16000 * (i - 1)
                  /\ obstacles[i].lane = (i - 1) % 3)
    /\ [][(restarted /\ playerRoot /\ restarted') => UNCHANGED gameVars]_vars

\* C11 witness: restart() has just returned after a running frame that
\* recycled floor, with the player shifted out of the middle lane before.
C11_Witness ==
    /\ restarted /\ playerRoot /\ ~disposed
    /\ lastFrameState = "running" /\ lastDelta > 0 /\ recycledFloor # {}
    /\ Len(floorSegments) = segmentCount

\* C12 (as claimed): once dispose() has been called, the model load has
\* completed and the texture loads that complete have completed, no parallax
\* layer (mesh, material, texture), obstacle or player model is left in the
\* scene undisposed.
C12_AllReleased ==
    (disposed /\ loadState # "pending" /\ texturesPending \cap ArrivingLayers = {})
        => (parallaxLayers = <<>> /\ obstacles = <<>> /\ ~playerRoot)

\* C13: a key handled in state loading or dead leaves the state, the target
\* lane, the grounded flag and the vertical velocity as they were; in state
\* ready every key but Enter leaves every field as it was.
C13_KeysIgnoredOutsideRunning ==
    [][ \A code \in KeyCodes :
          /\ (onKeyDown(code) /\ state \in {"loading", "dead"}) =>
                UNCHANGED <<state, uiState, targetLane, grounded, playerYVel>>
          /\ (onKeyDown(code) /\ state = "ready" /\ code # "Enter") =>
                UNCHANGED gameVars ]_vars

\* C13 witness: a dead game whose player had left the middle lane has its key
\* listener attached and has run a frame since it died (a key handled there
\* leaves the game in this same state).
C13_Witness ==
    state = "dead" /\ listening /\ targetLane # 1 /\ lastFrameState = "dead"

C16_PoolsFixedSize ==
    /\ [](~disposed =>
            /\ Len(floorSegments) = 6
            /\ loadState = "resolved" => Len(obstacles) = 7)
    /\ [][ /\ Len(floorSegments') # Len(floorSegments) => (~disposed /\ disposed')
           /\ Len(obstacles') # Len(obstacles) =>
                 \/ ~disposed /\ disposed'
                 \/ loadState = "pending" /\ loadState' = "resolved" ]_vars

\* C16 witness: restart() has just returned after a running frame that
\* recycled members of both pools, and both pools are complete.
C16_Witness ==
    /\ restarted /\ ~disposed /\ lastFrameState = "running"
    /\ recycledFloor # {} /\ recycledObstacles # {}
    /\ Len(floorSegments) = segmentCount /\ Len(obstacles) = obstacleCount

\* C17 (as claimed): at a fixed frame period, the n-th frame of a jump (n =
\* airFrames + 1) grounds the player exactly when the time since the jump,
\* n * delta, has reached 2 * 14 / gravity.
C17_LandsAtClosedFormFrame ==
    [][ (FrameIn("running") /\ ~grounded) =>
          (grounded' <=> (airFrames + 1) * lastDelta' * gravity >= 2 * JumpImpulse)
      ]_vars

\* C17 (amended): at a fixed frame period, the n-th frame of a jump (n =
\* airFrames + 1) grounds the player, at y = 0 with velocity 0, exactly when
\* (n + 1) * delta has reached 2 * 14 / gravity; until then the player stays
\* above the floor.
C17_LandsOneFrameBeforeClosedForm ==
    [][ (FrameIn("running") /\ ~grounded) =>
          /\ grounded' <=> (airFrames + 2) * lastDelta' * gravity >= 2 * JumpImpulse
          /\ grounded' => playerY' = 0 /\ playerYVel' = 0
          /\ ~grounded' => playerY' > 0 ]_vars

\* C17 witness: the player has landed on the third or a later frame of the
\* jump (the run starts with two frames executed).
C17_Witness ==
    lastFrameState = "running" /\ grounded /\ playerY = 0 /\ frames >= 5

\* C18: once the load has failed the state and the value seen by the App are
\* loading, no frame callback is pending, no frame has run and the player
\* model is absent; a key event or restart() then changes no field.
C18_FailedLoadStaysLoading ==
    /\ [](loadState = "rejected" =>
            /\ state = "loading" /\ uiState = "loading"
            /\ rafId = "null" /\ scheduled = 0 /\ frames = 0
            /\ ~playerRoot)
    /\ [][ /\ (loadState = "rejected" /\ restarted') => UNCHANGED gameVars
           /\ \A code \in KeyCodes :
                 (loadState = "rejected" /\ onKeyDown(code)) => UNCHANGED gameVars ]_vars

\* C18 witness: restart() has just returned on a game whose load failed and
\* whose key listener is still attached.
C18_Witness == loadState = "rejected" /\ restarted /\ listening

\* C19: while the state is loading no frame has run and none is pending; a
\* frame callback is pending only after the load resolved; every frame that
\* runs does so outside loading and leaves exactly one callback pending.
C19_LoopStartsAfterLoad ==
    /\ [](/\ state = "loading" => (frames = 0 /\ scheduled = 0)
          /\ scheduled > 0 => loadState = "resolved"
          /\ lastFrameState # "loading")
    /\ [][ frames' # frames => (state' # "loading" /\ scheduled' = 1) ]_vars

\* C19 witness: the loop has run every frame of the bound and the next
\* callback is pending.
C19_Witness == frames = MaxFrames /\ scheduled = 1 /\ lastFrameState = "running"

\* C20: a frame that update() starts in running moves every floor segment and
\* obstacle it does not recycle by the gameSpeed in force times the frame's
\* delta, and takes the gravity in force times delta off the vertical
\* velocity of an airborne player (who is grounded with velocity 0 instead
\* when that step brings it to the floor).
C20_TuningAppliesNextFrame ==
    [][ FrameIn("running") =>
          /\ \A i \in DOMAIN floorSegments :
                i \notin recycledFloor' =>
                    floorSegments'[i] = floorSegments[i] - gameSpeed * lastDelta'
          /\ \A i \in DOMAIN obstacles :
                i \notin recycledObstacles' =>
                    obstacles'[i].x = obstacles[i].x - gameSpeed * lastDelta'
          /\ ~grounded =>
                LET vel == playerYVel - gravity * lastDelta'
                IN IF playerY + vel * lastDelta' <= 0
                   THEN grounded' /\ playerYVel' = 0
                   ELSE ~grounded' /\ playerYVel' = vel ]_vars

\* C20 witness: with the speed slider at its maximum and the gravity slider at
\* 0, a running frame with positive delta has moved the floor and has left a
\* jumping player airborne at the full jump velocity (the default gravity
\* would have landed it in that frame).
C20_Witness ==
    /\ lastFrameState = "running" /\ lastDelta > 0
    /\ gameSpeed = 600 /\ gravity = 0
    /\ ~grounded /\ airFrames > 0 /\ playerYVel = JumpImpulse /\ playerY > 0
    /\ JumpImpulse - DefaultGravity * lastDelta < 0
    /\ floorSegments # FloorLayout(segmentCount)

Lesser(a, b) == IF a <= b THEN a ELSE b

\* Two boxes share a point: on every axis the later start is not after the
\* earlier end.
BoxesOverlap(a, b) ==
    /\ Max(a.minX, b.minX) <= Lesser(a.maxX, b.maxX)
    /\ Max(a.minY, b.minY) <= Lesser(a.maxY, b.maxY)
    /\ Max(a.minZ, b.minZ) <= Lesser(a.maxZ, b.maxZ)

\* Extents along one axis placed around the extent [2, 4]: apart below,
\* touching, overlapping partly, containing it, apart above.
SampleExtents == {<<0, 1>>, <<0, 2>>, <<1, 3>>, <<1, 5>>, <<5, 6>>}

SampleBox(ex, ey, ez) ==
    [minX |-> ex[1], maxX |-> ex[2], minY |-> ey[1], maxY |-> ey[2],
     minZ |-> ez[1], maxZ |-> ez[2]]

\* C21: the intersection test gives the same answer in both argument orders
\* and is true whenever the two boxes share a point: for the player's box
\* against every obstacle's box in every reachable state, and for the box
\* [2,4]^3 against every box built from the sample extents (these do not
\* depend on the state and are evaluated before the first frame only).
C21_IntersectionSymmetric ==
    /\ \A i \in DOMAIN obstacles :
          LET a == PlayerBox(playerY, playerZ)
              b == ObstacleBox(obstacles[i])
          IN /\ intersectsBox(a, b) = intersectsBox(b, a)
             /\ BoxesOverlap(a, b) => intersectsBox(a, b)
    /\ frames = 0 =>
        \A ex, ey, ez \in SampleExtents :
          LET a == SampleBox(<<2, 4>>, <<2, 4>>, <<2, 4>>)
              b == SampleBox(ex, ey, ez)
          IN /\ intersectsBox(a, b) = intersectsBox(b, a)
             /\ BoxesOverlap(a, b) => intersectsBox(a, b)

\* C21 witness: the game is dead with the player's box sharing a point with
\* an obstacle's box, while another obstacle is apart from the player.
C21_Witness ==
    /\ state = "dead"
    /\ \E i \in DOMAIN obstacles :
          BoxesOverlap(PlayerBox(playerY, playerZ), ObstacleBox(obstacles[i]))
    /\ \E i \in DOMAIN obstacles :
          ~BoxesOverlap(ObstacleBox(obstacles[i]), PlayerBox(playerY, playerZ))

HasClip(word) == \E i \in DOMAIN clips : word \in clips[i]

FirstClip(word) ==
    CHOOSE i \in DOMAIN clips :
        word \in clips[i] /\ \A j \in 1..(i - 1) : word \notin clips[j]

\* C22: once loaded from a non-empty clip list, run, jump and death are the
\* first clip whose name contains the role word, else the clip at index 0, 1
\* and 2 (positions 1, 2, 3) when the list is that long, else the clip at
\* index 0; idle is the first clip containing idle, else standing, else
\* stand, else unassigned; from an empty list no role is assigned.
C22_ClipResolution ==
    loadState = "resolved" =>
        IF Len(clips) = 0
        THEN \A r \in {"idle", "run", "jump", "death"} : playerActions[r] = NoAction
        ELSE /\ playerActions.run =
                  (IF HasClip("run") THEN FirstClip("run") ELSE 1)
             /\ playerActions.jump =
                  (IF HasClip("jump") THEN FirstClip("jump")
                   ELSE IF Len(clips) >= 2 THEN 2 ELSE 1)
             /\ playerActions.death =
                  (IF HasClip("death") THEN FirstClip("death")
                   ELSE IF Len(clips) >= 3 THEN 3 ELSE 1)
             /\ playerActions.idle =
                  (IF HasClip("idle") THEN FirstClip("idle")
                   ELSE IF HasClip("standing") THEN FirstClip("standing")
                   ELSE IF HasClip("stand") THEN FirstClip("stand")
                   ELSE NoAction)
             /\ \A r \in {"run", "jump", "death"} : playerActions[r] # NoAction

\* C22 witness: a running game loaded from a two-clip asset with no death
\* clip, the second clip named for run: death fell back to index 0, jump to
\* index 1, run matched by name.
C22_Witness ==
    /\ loadState = "resolved" /\ state = "running" /\ Len(clips) = 2
    /\ clips[1] = {} /\ clips[2] = {"run"}
    /\ playerActions.death = 1 /\ playerActions.jump = 2 /\ playerActions.run = 2

\* C23: every obstacle recycled by a running frame ends that frame ahead of
\* the player's fixed x, on the ground (y = 0) and in one of the three lanes
\* (z = -5, 0 or 5), however many obstacles the frame recycled.
C23_RecycledAheadOnLane ==
    [][FrameIn("running") =>
          \A i \in recycledObstacles' :
              /\ obstacles'[i].x > playerX
              /\ obstacles'[i].y = 0
              /\ obstacles'[i].lane \in DOMAIN LANES
              /\ LANES[obstacles'[i].lane] \in {-5000, 0, 5000}]_vars

\* C23 witness: a running frame that recycled two obstacles at once into
\* different lanes.
C23_Witness ==
    /\ lastFrameState = "running" /\ state = "running"
    /\ \E i, j \in recycledObstacles :
           i # j /\ obstacles[i].lane # obstacles[j].lane
                 /\ obstacles[i].x > playerX /\ obstacles[j].x > playerX

RunningOrder ==
    <<"camera", "parallax", "mixer", "player", "floor", "obstacles", "collisions">>

PlayerHits(y, z, obs) ==
    \E i \in DOMAIN obs : intersectsBox(PlayerBox(y, z), ObstacleBox(obs[i]))

\* C24: a frame entered in running executes camera, parallax, mixer, player,
\* floor, obstacles, collisions in that order, and it ends dead exactly when
\* the player's box intersects an obstacle's box at the positions the frame
\* has produced; a frame entered in dead executes camera, parallax and mixer
\* only and moves neither the player nor the floor nor the obstacles.
C24_StepOrder ==
    [][ /\ FrameIn("running") =>
              /\ lastSteps' = RunningOrder
              /\ (state' = "dead") <=> PlayerHits(playerY', playerZ', obstacles')
        /\ FrameIn("dead") =>
              /\ lastSteps' = <<"camera", "parallax", "mixer">>
              /\ state' = "dead"
              /\ <<playerY, playerZ, floorSegments, obstacles>>' =
                     <<playerY, playerZ, floorSegments, obstacles>> ]_vars

\* C24 witness: the game died in a frame whose movement brought an obstacle
\* onto the player, and the next frame, with time passed, has left that
\* obstacle where it was.
C24_Witness ==
    /\ state = "dead" /\ lastFrameState = "dead" /\ lastDelta > 0
    /\ lastSteps = <<"camera", "parallax", "mixer">>
    /\ PlayerHits(playerY, playerZ, obstacles)

\* C25: in every state the value last given to the state-change callback
\* (App's gameState, "loading" at first) is the game's state, so App shows
\* its Restart button exactly in state dead; and a click on that button (App
\* still mounted) calls restart() in state dead and leaves the game, and the
\* value App holds, running.
C25_UiMirrorsState ==
    /\ [](uiState = state)
    /\ [][(uiState = "dead" /\ ~disposed /\ restart) =>
              (state = "dead" /\ state' = "running" /\ uiState' = "running")]_vars

\* C25 witness: the game died in its latest frame, App showed the button and
\* the click restarted the game.
C25_Witness ==
    /\ restarted /\ ~disposed /\ deadCalls = 1 /\ lastFrameState = "running"
    /\ state = "running" /\ uiState = "running" /\ awaitingFirst

\* C26 (as claimed): once dispose() has returned, no step changes the game's
\* state or gives the state-change callback a value, whether dispose() came
\* before or after the end of the asset load.
C26_SilentAfterDispose ==
    [][disposed => (state' = state /\ uiState' = uiState)]_vars

\* C27 (as claimed): at the end of every frame update made in state running
\* some floor segment spans the player's x: its centre is within half a
\* segment length of playerX.
C27_FloorUnderPlayer ==
    [][FrameIn("running") =>
          \E i \in DOMAIN floorSegments' :
              2 * Abs(floorSegments'[i] - playerX) <= floorSegmentLength]_vars

\* C28: in every state the player's vertical position is at least 0 and a
\* grounded player is at height 0 with vertical velocity 0; the player leaves
\* the ground only by the Space key handled in state running, and comes back
\* to it only in a frame update made in state running or by restart().
C28_VerticalPhysics ==
    /\ [](playerY >= 0 /\ (grounded => (playerY = 0 /\ playerYVel = 0)))
    /\ [][ /\ (grounded /\ ~grounded') =>
                  (state = "running" /\ onKeyDown("Space"))
           /\ (~grounded /\ grounded') =>
                  (FrameIn("running") \/ (playerRoot /\ restart)) ]_vars

\* C28 witness: the player is in the air, above the ground and falling, after
\* more than one frame of the jump.
C28_Witness ==
    /\ state = "running" /\ ~grounded /\ playerY > 0 /\ playerYVel < 0
    /\ airFrames >= 2

C29_ZeroGravityKeepsRising ==
    [][(gravity = 0 /\ ~grounded /\ playerYVel > 0 /\ FallFrame) =>
          (~grounded' /\ playerYVel' = playerYVel /\ playerY' > playerY
             /\ lastDelta' > 0)]_vars

\* C30: in every state (so at the end of every frame update) every obstacle
\* is at x >= -26 and every floor segment at x >= -30; and in a frame made in
\* state running every obstacle and every segment that the frame's movement
\* takes behind its threshold is recycled by that same frame.
C30_NothingStaysBehind ==
    /\ [](/\ \A i \in DOMAIN obstacles : obstacles[i].x >= ObstacleBehindThreshold
          /\ \A i \in DOMAIN floorSegments : floorSegments[i] >= FloorBehindThreshold)
    /\ [][FrameIn("running") =>
             LET dx == gameSpeed * lastDelta'
             IN /\ \A i \in DOMAIN obstacles :
                       (obstacles[i].x - dx < ObstacleBehindThreshold)
                           <=> (i \in recycledObstacles')
                /\ \A i \in DOMAIN floorSegments :
                       (floorSegments[i] - dx < FloorBehindThreshold)
                           <=> (i \in recycledFloor')]_vars

\* C30 witness: a running frame moved a segment and an obstacle behind their
\* thresholds and ended with both recycled ahead, while an obstacle that
\* did not cross is still behind the player.
C30_Witness ==
    /\ lastFrameState = "running" /\ state = "running" /\ lastDelta > 0
    /\ recycledFloor # {} /\ recycledObstacles # {}
    /\ \A i \in recycledObstacles : obstacles[i].x > 0
    /\ \A i \in recycledFloor : floorSegments[i] > 0
    /\ \E i \in DOMAIN obstacles :
           obstacles[i].x < playerX /\ obstacles[i].x >= ObstacleBehindThreshold

\* C31: in every state at most one frame callback is pending, and every
\* execution of tick (the one made by load() and the ones made by the
\* browser) leaves exactly one pending; restart(), the key handler and the
\* passing of time request none.
C31_OneCallbackPending ==
    /\ [](scheduled \in {0, 1})
    /\ [][ /\ (frames' # frames) => (frames' = frames + 1 /\ scheduled' = 1)
           /\ (frames' = frames) => (scheduled' <= scheduled) ]_vars

\* C31 witness: after the load, the start and the last explored frame, a
\* running frame with time passed that recycled an obstacle, one callback is
\* pending.
C31_Witness ==
    /\ scheduled = 1 /\ loadState = "resolved" /\ ~disposed
    /\ deadCalls = 0 /\ lastFrameState = "running" /\ state = "running"
    /\ frames = MaxFrames /\ lastDelta > 0 /\ recycledObstacles # {}

\* The actions the mixer is playing.
ActiveActions == {a \in DOMAIN active : active[a] # "stopped"}

\* C32 (as claimed): in state running exactly one of the run and jump
\* actions is active: the run action when the player is grounded, the jump
\* action when it is in the air.
C32_RunOrJumpActive ==
    state = "running" =>
        /\ Cardinality(ActiveActions \cap {playerActions.run, playerActions.jump}) = 1
        /\ grounded => playerActions.run \in ActiveActions
        /\ ~grounded => playerActions.jump \in ActiveActions

\* C32 (amended): in state running, when the player asset has at least one
\* clip the only active action is the run action if the player is grounded
\* and the jump action if it is in the air (one and the same action when
\* both roles resolved to the same clip); when the asset has no clip, no
\* action exists and none is active.
C32_RunOrJumpActiveWithClips ==
    state = "running" =>
        IF Len(clips) = 0
        THEN ActiveActions = {} /\ playerActions = NoActions
        ELSE ActiveActions =
                 {IF grounded THEN playerActions.run ELSE playerActions.jump}

\* C32 witness: a two-clip asset with no role names, run and jump resolved by
\* index, a jump after the first running frame: the jump action (index 1)
\* alone is active in the air.
C32_Witness ==
    /\ state = "running" /\ ~grounded /\ clips = <<{}, {}>>
    /\ playerActions.run = 1 /\ playerActions.jump = 2
    /\ ActiveActions = {2} /\ frames >= 3

\* A game whose load had completed when dispose() was called: the player
\* reference was cleared by dispose() and no load is left to set it again.
DisposedAfterLoad == disposed /\ loadState = "resolved" /\ ~playerRoot

\* C33: once a loaded game has been disposed, its key listener stays removed
\* (no key press reaches onKeyDown) and no step, restart() included, changes
\* the state, the value given to the callback, the lanes, the jump
\* variables, the camera, the player's, floor's or obstacles' positions or
\* the playing actions.
C33_InertAfterDispose ==
    [][DisposedAfterLoad =>
          /\ ~listening /\ ~listening' /\ DisposedAfterLoad'
          /\ \A code \in KeyCodes : ~onKeyDown(code)
          /\ UNCHANGED <<state, uiState, currentLane, targetLane, playerY,
                         playerYVel, grounded, playerZ, cameraFollowX,
                         floorSegments, obstacles, active, scheduled, frames>>]_vars

\* C33 witness: a game disposed while dead, on which restart() has since
\* been called: it is still dead, with its pools empty.
C33_Witness ==
    /\ DisposedAfterLoad /\ restarted /\ state = "dead" /\ uiState = "dead"
    /\ floorSegments = <<>> /\ obstacles = <<>>

====
